---- MODULE Spec2Model ----
(***************************************************************************)
(* Model of google-lens-ocr (src/main.rs): one invocation of main, from    *)
(* argument parsing to the output sink.  Byte strings are sequences of     *)
(* byte values (ASCII codes); the HTTP peer, the clock, the clipboard, the *)
(* image decoder and the PNG encoder are the environment and choose their  *)
(* results nondeterministically from small sets.                           *)
(***************************************************************************)
EXTENDS Integers, Sequences, FiniteSets, TLC

VARIABLES
    pc,          \* position of main / run_ocr
    command,     \* Command parsed from argv
    clipboardOpen, \* Clipboard::new() succeeded (clipboard mode)
    srcImg,      \* dimensions of the acquired image
    img,         \* dimensions of the image after maybe_resize_image
    png,         \* PNG bytes written by img.write_to
    ts,          \* get_timestamp_ms()
    filename,    \* format!("{ts}.png")
    body,        \* create_multipart_form(...)
    contentType, \* value of the Content-Type request header
    requests,    \* number of HTTP requests issued
    status,      \* status of the HTTP response (0: none yet)
    text,        \* resp.into_string()
    capture,     \* capture group 1 of the regex
    value,       \* serde_json5::from_str(capture)
    data,        \* value.pointer("/data/3/4/0").as_array()
    result,      \* what run_ocr returned
    err,         \* the anyhow error main returns
    sink,        \* what the output sink received and wrote
    stages       \* the pipeline stages entered so far, in order

vars ==
    <<pc, command, clipboardOpen, srcImg, img, png, ts, filename, body,
      contentType, requests, status, text, capture, value, data, result,
      err, sink, stages>>

(***************************************************************************)
(* The string literals of main.rs, as bytes.                               *)
(***************************************************************************)
\* bytes of "ZPJQvnUMIqajI5LbS8cc5w"
BOUNDARY ==
    <<90, 80, 74, 81, 118, 110, 85, 77, 73, 113, 97, 106, 73, 53, 76, 98, 83, 56, 99, 99, 53, 119>>

\* bytes of "--"
LIT_DASHES ==
    <<45, 45>>

\* bytes of "\r\n"
LIT_CRLF ==
    <<13, 10>>

\* bytes of "Content-Type: image/png\r\n"
LIT_CONTENT_TYPE ==
    <<67, 111, 110, 116, 101, 110, 116, 45, 84, 121, 112, 101, 58, 32, 105, 109, 97, 103, 101, 47, 112, 110, 103, 13, 10>>

\* bytes of "Content-Disposition: form-data; name="encoded_image"; "
LIT_DISPOSITION ==
    <<67, 111, 110, 116, 101, 110, 116, 45, 68, 105, 115, 112, 111, 115, 105, 116, 105, 111, 110, 58, 32, 102, 111, 114, 109, 45, 100, 97, 116, 97, 59, 32, 110, 97, 109, 101, 61, 34, 101, 110, 99, 111, 100, 101, 100, 95, 105, 109, 97, 103, 101, 34, 59, 32>>

\* bytes of "filename=""
LIT_FILENAME_OPEN ==
    <<102, 105, 108, 101, 110, 97, 109, 101, 61, 34>>

\* bytes of ""\r\n\r\n"
LIT_HEADERS_END ==
    <<34, 13, 10, 13, 10>>

\* bytes of "\r\n--"
LIT_CLOSE_OPEN ==
    <<13, 10, 45, 45>>

\* bytes of "--\r\n"
LIT_CLOSE_END ==
    <<45, 45, 13, 10>>

\* bytes of ".png"
LIT_PNG_SUFFIX ==
    <<46, 112, 110, 103>>

\* bytes of "multipart/form-data; boundary="
LIT_HEADER_PREFIX ==
    <<109, 117, 108, 116, 105, 112, 97, 114, 116, 47, 102, 111, 114, 109, 45, 100, 97, 116, 97, 59, 32, 98, 111, 117, 110, 100, 97, 114, 121, 61>>

\* bytes of ">AF_initDataCallback("
RE_CALLBACK ==
    <<62, 65, 70, 95, 105, 110, 105, 116, 68, 97, 116, 97, 67, 97, 108, 108, 98, 97, 99, 107, 40>>

\* bytes of "{key: 'ds:1'"
RE_KEY ==
    <<123, 107, 101, 121, 58, 32, 39, 100, 115, 58, 49, 39>>

\* bytes of ");</script>"
RE_TERMINATOR ==
    <<41, 59, 60, 47, 115, 99, 114, 105, 112, 116, 62>>

\* bytes of "data"
TOKEN_DATA ==
    <<100, 97, 116, 97>>

\* bytes of "3"
TOKEN_3 ==
    <<51>>

\* bytes of "4"
TOKEN_4 ==
    <<52>>

\* bytes of "0"
TOKEN_0 ==
    <<48>>

\* bytes of "true"
LIT_TRUE ==
    <<116, 114, 117, 101>>

\* bytes of "false"
LIT_FALSE ==
    <<102, 97, 108, 115, 101>>

\* bytes of "null"
LIT_NULL ==
    <<110, 117, 108, 108>>

(***************************************************************************)
(* Unsigned arithmetic.  Pixel counts reach 2^64, beyond the integers the  *)
(* model checker computes with, so products are kept as little-endian      *)
(* sequences of base-256 digits.                                           *)
(***************************************************************************)
RECURSIVE Limbs(_)
Limbs(n) ==
    IF n = 0 THEN <<>> ELSE <<n % 256>> \o Limbs(n \div 256)

RECURSIVE Strip(_)
Strip(x) ==
    IF x = <<>> THEN <<>>
    ELSE IF x[Len(x)] = 0 THEN Strip(SubSeq(x, 1, Len(x) - 1))
    ELSE x

RECURSIVE ColumnSum(_, _, _, _)
ColumnSum(a, b, k, i) ==
    IF i > Len(a) THEN 0
    ELSE (IF k + 1 - i >= 1 /\ k + 1 - i <= Len(b) THEN a[i] * b[k + 1 - i] ELSE 0)
         + ColumnSum(a, b, k, i + 1)

RECURSIVE Carry(_, _, _, _)
Carry(a, b, k, c) ==
    IF k > Len(a) + Len(b) - 1 THEN Limbs(c)
    ELSE LET s == ColumnSum(a, b, k, 1) + c
         IN  <<s % 256>> \o Carry(a, b, k + 1, s \div 256)

BigMul(a, b) ==
    IF a = <<>> \/ b = <<>> THEN <<>> ELSE Strip(Carry(a, b, 1, 0))

\* -1, 0, 1 as a < b, a = b, a > b (both without leading zero digits)
RECURSIVE BigCmp(_, _)
BigCmp(a, b) ==
    IF Len(a) # Len(b) THEN (IF Len(a) < Len(b) THEN -1 ELSE 1)
    ELSE IF a = <<>> THEN 0
    ELSE IF a[Len(a)] # b[Len(b)] THEN (IF a[Len(a)] < b[Len(b)] THEN -1 ELSE 1)
    ELSE BigCmp(SubSeq(a, 1, Len(a) - 1), SubSeq(b, 1, Len(b) - 1))

\* the exact product of two dimensions
Product(w, h) ==
    BigMul(Limbs(w), Limbs(h))

\* u32 * u32 as the release build computes it: the low 32 bits
WrappingMul(w, h) ==
    LET p == Product(w, h)
    IN  Strip(SubSeq(p, 1, IF Len(p) < 4 THEN Len(p) ELSE 4))

\* u32 * u32 does not fit in 32 bits: the debug build panics here
Overflows(w, h) ==
    Len(Product(w, h)) > 4

PIXEL_CEILING ==
    3000000

(***************************************************************************)
(* maybe_resize_image.  aspect_ratio is the f64 width / height; it is kept *)
(* as the exact fraction, so `as u32` of a value computed from it is the   *)
(* floor of the exact value.  (IEEE rounding can differ from the exact     *)
(* floor only when the exact value is within about 1e-9 of an integer.)    *)
(***************************************************************************)
aspect_ratio(image) ==
    [num |-> image.w, den |-> image.h]

\* n <= sqrt(3_000_000 * aspect_ratio), i.e. n * n * den <= 3_000_000 * num
SqrtAtLeast(n, ar) ==
    BigCmp(BigMul(BigMul(Limbs(n), Limbs(n)), Limbs(ar.den)),
           BigMul(Limbs(PIXEL_CEILING), Limbs(ar.num))) <= 0

RECURSIVE FloorSqrt(_, _, _)
FloorSqrt(lo, hi, ar) ==
    IF hi - lo <= 1 THEN lo
    ELSE LET mid == (lo + hi) \div 2
         IN  IF SqrtAtLeast(mid, ar) THEN FloorSqrt(mid, hi, ar)
             ELSE FloorSqrt(lo, mid, ar)

\* ((3_000_000f64 * aspect_ratio).sqrt()) as u32
nwidth(ar) ==
    FloorSqrt(0, 134217728, ar)

\* m <= nw / aspect_ratio, i.e. m * num <= nw * den
QuotientAtLeast(m, nw, ar) ==
    BigCmp(BigMul(Limbs(m), Limbs(ar.num)),
           BigMul(Limbs(nw), Limbs(ar.den))) <= 0

RECURSIVE FloorQuotient(_, _, _, _)
FloorQuotient(lo, hi, nw, ar) ==
    IF hi - lo <= 1 THEN lo
    ELSE LET mid == (lo + hi) \div 2
         IN  IF QuotientAtLeast(mid, nw, ar) THEN FloorQuotient(mid, hi, nw, ar)
             ELSE FloorQuotient(lo, mid, nw, ar)

\* (nwidth as f64 / aspect_ratio) as u32
nheight(nw, ar) ==
    FloorQuotient(0, 134217728, nw, ar)

\* the release build: the pixel count wraps modulo 2^32 before the comparison
maybe_resize_image(image) ==
    IF BigCmp(WrappingMul(image.w, image.h), Limbs(PIXEL_CEILING)) > 0
    THEN LET ar == aspect_ratio(image)
             nw == nwidth(ar)
         IN  [w |-> nw, h |-> nheight(nw, ar)]
    ELSE image

(***************************************************************************)
(* create_multipart_form and the strings run_ocr formats.                  *)
(***************************************************************************)
RECURSIVE Decimal(_)
Decimal(n) ==
    IF n < 10 THEN <<48 + n>> ELSE Decimal(n \div 10) \o <<48 + (n % 10)>>

\* format!("{ts}.png")
FormatFilename(t) ==
    Decimal(t) \o LIT_PNG_SUFFIX

\* format!("multipart/form-data; boundary={BOUNDARY}")
FormatContentType ==
    LIT_HEADER_PREFIX \o BOUNDARY

create_multipart_form_no_crlf(name, image) ==
    (((((((((LIT_DASHES \o BOUNDARY) \o LIT_CRLF) \o LIT_CONTENT_TYPE) \o LIT_DISPOSITION)
        \o LIT_FILENAME_OPEN) \o name) \o LIT_HEADERS_END) \o image) \o LIT_DASHES)
        \o BOUNDARY \o LIT_CLOSE_END

create_multipart_form(name, image) ==
    LET b0 == <<>>
        b1 == b0 \o LIT_DASHES
        b2 == b1 \o BOUNDARY
        b3 == b2 \o LIT_CRLF
        b4 == b3 \o LIT_CONTENT_TYPE
        b5 == b4 \o LIT_DISPOSITION
        b6 == b5 \o LIT_FILENAME_OPEN
        b7 == b6 \o name
        b8 == b7 \o LIT_HEADERS_END
        b9 == b8 \o image
        b10 == b9 \o LIT_CLOSE_OPEN
        b11 == b10 \o BOUNDARY
        b12 == b11 \o LIT_CLOSE_END
    IN  b12

(***************************************************************************)
(* Optional values.                                                        *)
(***************************************************************************)
None ==
    [some |-> FALSE]

Some(x) ==
    [some |-> TRUE, v |-> x]

Min(S) ==
    CHOOSE x \in S : \A y \in S : x <= y

Max(S) ==
    CHOOSE x \in S : \A y \in S : x >= y

\* the byte string lit occurs in s at position i
At(s, i, lit) ==
    /\ i >= 1
    /\ i + Len(lit) - 1 <= Len(s)
    /\ SubSeq(s, i, i + Len(lit) - 1) = lit

(***************************************************************************)
(* get_regex().captures(&text).and_then(|m| m.get(1)): the leftmost match  *)
(* of >AF_initDataCallback\((\{key: 'ds:1'.*?)\);</script> ; `.` matches   *)
(* any character but a line feed and `.*?` stops at the first terminator.  *)
(***************************************************************************)
RE_OPEN ==
    RE_CALLBACK \o RE_KEY

\* where a match that starts at i can end: the positions of the terminator
MatchEnds(s, i) ==
    {j \in (i + Len(RE_OPEN))..Len(s) :
        /\ At(s, j, RE_TERMINATOR)
        /\ \A k \in (i + Len(RE_OPEN))..(j - 1) : s[k] # 10}

MatchStarts(s) ==
    {i \in 1..Len(s) : At(s, i, RE_OPEN) /\ MatchEnds(s, i) # {}}

captures_greedy(s) ==
    IF MatchStarts(s) = {} THEN None
    ELSE LET i == Min(MatchStarts(s))
         IN  Some(SubSeq(s, i + Len(RE_CALLBACK), Max(MatchEnds(s, i)) - 1))

captures(s) ==
    IF MatchStarts(s) = {} THEN None
    ELSE LET i == Min(MatchStarts(s))
         IN  Some(SubSeq(s, i + Len(RE_CALLBACK), Min(MatchEnds(s, i)) - 1))

(***************************************************************************)
(* serde_json5::from_str::<serde_json::Value>: a recursive-descent parser  *)
(* of the JSON5 subset the responses use: objects with unquoted or quoted  *)
(* keys, arrays (trailing comma allowed), single- and double-quoted        *)
(* strings with the simple escapes, signed decimal integers, true, false   *)
(* and null.  A value is a record tagged by its kind.                      *)
(***************************************************************************)
JNull ==
    [t |-> "null"]

JBool(b) ==
    [t |-> "bool", b |-> b]

JNum(n) ==
    [t |-> "num", n |-> n]

JStr(s) ==
    [t |-> "str", s |-> s]

JArr(a) ==
    [t |-> "arr", a |-> a]

JObj(m) ==
    [t |-> "obj", m |-> m]

Fail ==
    [ok |-> FALSE]

Ok(v, p) ==
    [ok |-> TRUE, val |-> v, pos |-> p]

\* char::is_whitespace on the ASCII range
IsWhitespace(c) ==
    c \in {9, 10, 11, 12, 13, 32}

IsDigit(c) ==
    c >= 48 /\ c <= 57

IsIdStart(c) ==
    (c >= 65 /\ c <= 90) \/ (c >= 97 /\ c <= 122) \/ c = 95 \/ c = 36

RECURSIVE SkipWs(_, _)
SkipWs(s, i) ==
    IF i <= Len(s) /\ IsWhitespace(s[i]) THEN SkipWs(s, i + 1) ELSE i

RECURSIVE ScanDigits(_, _)
ScanDigits(s, i) ==
    IF i <= Len(s) /\ IsDigit(s[i]) THEN ScanDigits(s, i + 1) ELSE i

RECURSIVE ScanIdent(_, _)
ScanIdent(s, i) ==
    IF i <= Len(s) /\ (IsIdStart(s[i]) \/ IsDigit(s[i])) THEN ScanIdent(s, i + 1) ELSE i

RECURSIVE DigitsValue(_)
DigitsValue(d) ==
    IF d = <<>> THEN 0 ELSE 10 * DigitsValue(SubSeq(d, 1, Len(d) - 1)) + (d[Len(d)] - 48)

ParseNumber(s, i) ==
    LET signed == s[i] \in {43, 45}
        first == IF signed THEN i + 1 ELSE i
        last == ScanDigits(s, first)
    IN  IF last = first THEN Fail
        ELSE LET n == DigitsValue(SubSeq(s, first, last - 1))
             IN  Ok(JNum(IF s[i] = 45 THEN 0 - n ELSE n), last)

RECURSIVE ParseString(_, _, _, _)
ParseString(s, i, quote, acc) ==
    IF i > Len(s) THEN Fail
    ELSE IF s[i] = quote THEN Ok(JStr(acc), i + 1)
    ELSE IF s[i] \in {10, 13} THEN Fail
    ELSE IF s[i] = 92
         THEN IF i + 1 > Len(s) THEN Fail
              ELSE IF s[i + 1] = 110 THEN ParseString(s, i + 2, quote, Append(acc, 10))
              ELSE IF s[i + 1] = 116 THEN ParseString(s, i + 2, quote, Append(acc, 9))
              ELSE IF s[i + 1] = 114 THEN ParseString(s, i + 2, quote, Append(acc, 13))
              ELSE IF s[i + 1] \in {34, 39, 47, 92}
                   THEN ParseString(s, i + 2, quote, Append(acc, s[i + 1]))
              ELSE Fail
    ELSE ParseString(s, i + 1, quote, Append(acc, s[i]))

ParseKey(s, i) ==
    IF i > Len(s) THEN Fail
    ELSE IF s[i] \in {34, 39}
         THEN LET r == ParseString(s, i + 1, s[i], <<>>)
              IN  IF r.ok THEN Ok(r.val.s, r.pos) ELSE Fail
    ELSE IF IsIdStart(s[i])
         THEN LET e == ScanIdent(s, i) IN Ok(SubSeq(s, i, e - 1), e)
    ELSE Fail

RECURSIVE ParseValue(_, _)
RECURSIVE ParseElements(_, _, _)
RECURSIVE ParseMembers(_, _, _)

ParseValue(s, i) ==
    LET j == SkipWs(s, i)
    IN  IF j > Len(s) THEN Fail
        ELSE IF s[j] = 91 THEN ParseElements(s, j + 1, <<>>)
        ELSE IF s[j] = 123 THEN ParseMembers(s, j + 1, <<>>)
        ELSE IF s[j] \in {34, 39} THEN ParseString(s, j + 1, s[j], <<>>)
        ELSE IF IsDigit(s[j]) \/ s[j] \in {43, 45} THEN ParseNumber(s, j)
        ELSE IF At(s, j, LIT_TRUE) THEN Ok(JBool(TRUE), j + Len(LIT_TRUE))
        ELSE IF At(s, j, LIT_FALSE) THEN Ok(JBool(FALSE), j + Len(LIT_FALSE))
        ELSE IF At(s, j, LIT_NULL) THEN Ok(JNull, j + Len(LIT_NULL))
        ELSE Fail

\* after `[` or after a comma: `]` or a value followed by `,` or `]`
ParseElements(s, i, acc) ==
    LET j == SkipWs(s, i)
    IN  IF j > Len(s) THEN Fail
        ELSE IF s[j] = 93 THEN Ok(JArr(acc), j + 1)
        ELSE LET r == ParseValue(s, j)
             IN  IF ~r.ok THEN Fail
                 ELSE LET k == SkipWs(s, r.pos)
                      IN  IF k > Len(s) THEN Fail
                          ELSE IF s[k] = 44 THEN ParseElements(s, k + 1, Append(acc, r.val))
                          ELSE IF s[k] = 93 THEN Ok(JArr(Append(acc, r.val)), k + 1)
                          ELSE Fail

\* after `{` or after a comma: `}` or key : value followed by `,` or `}`
ParseMembers(s, i, acc) ==
    LET j == SkipWs(s, i)
    IN  IF j > Len(s) THEN Fail
        ELSE IF s[j] = 125 THEN Ok(JObj(acc), j + 1)
        ELSE LET key == ParseKey(s, j)
             IN  IF ~key.ok THEN Fail
                 ELSE LET c == SkipWs(s, key.pos)
                      IN  IF c > Len(s) \/ s[c] # 58 THEN Fail
                          ELSE LET r == ParseValue(s, c + 1)
                               IN  IF ~r.ok THEN Fail
                                   ELSE LET k == SkipWs(s, r.pos)
                                            m == Append(acc, [k |-> key.val, v |-> r.val])
                                        IN  IF k > Len(s) THEN Fail
                                            ELSE IF s[k] = 44 THEN ParseMembers(s, k + 1, m)
                                            ELSE IF s[k] = 125 THEN Ok(JObj(m), k + 1)
                                            ELSE Fail

\* the whole input is one value, surrounded by whitespace only
from_str(s) ==
    LET r == ParseValue(s, 1)
    IN  IF r.ok /\ SkipWs(s, r.pos) = Len(s) + 1 THEN Some(r.val) ELSE None

(***************************************************************************)
(* serde_json::Value::pointer: an object is looked up by key (the last of  *)
(* duplicate keys wins), an array by the token parsed as an index, any     *)
(* other value has no children.                                            *)
(***************************************************************************)
parse_index(tok) ==
    IF \/ tok = <<>>
       \/ tok[1] = 43
       \/ (tok[1] = 48 /\ Len(tok) # 1)
       \/ \E i \in 1..Len(tok) : ~IsDigit(tok[i])
    THEN None
    ELSE Some(DigitsValue(tok))

RECURSIVE pointer(_, _)
pointer(v, tokens) ==
    IF tokens = <<>> THEN Some(v)
    ELSE IF v.t = "obj"
         THEN LET hits == {i \in 1..Len(v.m) : v.m[i].k = Head(tokens)}
              IN  IF hits = {} THEN None
                  ELSE pointer(v.m[Max(hits)].v, Tail(tokens))
    ELSE IF v.t = "arr"
         THEN LET ix == parse_index(Head(tokens))
              IN  IF ix.some /\ ix.v + 1 <= Len(v.a)
                  THEN pointer(v.a[ix.v + 1], Tail(tokens))
                  ELSE None
    ELSE None

\* value.pointer("/data/3/4/0").and_then(|s| s.as_array())
find_data(doc) ==
    LET p == pointer(doc, <<TOKEN_DATA, TOKEN_3, TOKEN_4, TOKEN_0>>)
    IN  IF p.some /\ p.v.t = "arr" THEN Some(p.v.a) ELSE None

\* data.first().and_then(|s| s.as_array())
first_array(d) ==
    IF Len(d) > 0 /\ d[1].t = "arr" THEN Some(d[1].a) ELSE None

\* the for loop: push every string element and a line feed after it
RECURSIVE push_fragments_all(_, _, _)
push_fragments_all(elems, i, buffer) ==
    IF i > Len(elems) THEN buffer
    ELSE push_fragments_all(elems, i + 1,
             (IF elems[i].t = "str" THEN buffer \o elems[i].s ELSE buffer) \o <<10>>)

RECURSIVE push_fragments(_, _, _)
push_fragments(elems, i, buffer) ==
    IF i > Len(elems) THEN buffer
    ELSE IF elems[i].t # "str" THEN push_fragments(elems, i + 1, buffer)
    ELSE push_fragments(elems, i + 1, (buffer \o elems[i].s) \o <<10>>)

\* buffer.trim_end().len()
RECURSIVE trim_end_len(_)
trim_end_len(buffer) ==
    IF buffer = <<>> THEN 0
    ELSE IF IsWhitespace(buffer[Len(buffer)])
         THEN trim_end_len(SubSeq(buffer, 1, Len(buffer) - 1))
    ELSE Len(buffer)

extract_text_strict(d) ==
    IF Len(d) = 0 THEN None
    ELSE LET first == first_array(d)
         IN  IF ~first.some THEN Some(<<>>)
             ELSE LET buffer == push_fragments(first.v, 1, <<>>)
                  IN  Some(SubSeq(buffer, 1, trim_end_len(buffer)))

\* lines 112-125: what run_ocr returns for the array at data[3][4][0]
extract_text(d) ==
    LET first == first_array(d)
    IN  IF ~first.some THEN Some(<<>>)
        ELSE LET buffer == push_fragments(first.v, 1, <<>>)
             IN  Some(SubSeq(buffer, 1, trim_end_len(buffer)))

\* bytes of "<html>>AF_initDataCallback({key: 'ds:1', data: [0,0,0,[0,0,0,0,[["Hello","World"]]]]});</script></html>"
BodyHello ==
    <<60, 104, 116, 109, 108, 62, 62, 65, 70, 95, 105, 110, 105, 116, 68, 97, 116, 97, 67, 97, 108, 108, 98, 97, 99, 107, 40, 123, 107, 101, 121, 58, 32, 39, 100, 115, 58, 49, 39, 44, 32, 100, 97, 116, 97, 58, 32, 91, 48, 44, 48, 44, 48, 44, 91, 48, 44, 48, 44, 48, 44, 48, 44, 91, 91, 34, 72, 101, 108, 108, 111, 34, 44, 34, 87, 111, 114, 108, 100, 34, 93, 93, 93, 93, 125, 41, 59, 60, 47, 115, 99, 114, 105, 112, 116, 62, 60, 47, 104, 116, 109, 108, 62>>

\* bytes of "<html>>AF_initDataCallback({key: 'ds:1', data: [0,0,0,[0,0,0,0,[[["Hello","World"]]]]]});</script></html>"
BodyHelloNested ==
    <<60, 104, 116, 109, 108, 62, 62, 65, 70, 95, 105, 110, 105, 116, 68, 97, 116, 97, 67, 97, 108, 108, 98, 97, 99, 107, 40, 123, 107, 101, 121, 58, 32, 39, 100, 115, 58, 49, 39, 44, 32, 100, 97, 116, 97, 58, 32, 91, 48, 44, 48, 44, 48, 44, 91, 48, 44, 48, 44, 48, 44, 48, 44, 91, 91, 91, 34, 72, 101, 108, 108, 111, 34, 44, 34, 87, 111, 114, 108, 100, 34, 93, 93, 93, 93, 93, 125, 41, 59, 60, 47, 115, 99, 114, 105, 112, 116, 62, 60, 47, 104, 116, 109, 108, 62>>

\* bytes of ">AF_initDataCallback({key: 'ds:1', data: [0,0,0,[0,0,0,0,[[["Hello","World"]]]]]});</script><script>x();</script>"
BodyHelloNestedThenScript ==
    <<62, 65, 70, 95, 105, 110, 105, 116, 68, 97, 116, 97, 67, 97, 108, 108, 98, 97, 99, 107, 40, 123, 107, 101, 121, 58, 32, 39, 100, 115, 58, 49, 39, 44, 32, 100, 97, 116, 97, 58, 32, 91, 48, 44, 48, 44, 48, 44, 91, 48, 44, 48, 44, 48, 44, 48, 44, 91, 91, 91, 34, 72, 101, 108, 108, 111, 34, 44, 34, 87, 111, 114, 108, 100, 34, 93, 93, 93, 93, 93, 125, 41, 59, 60, 47, 115, 99, 114, 105, 112, 116, 62, 60, 115, 99, 114, 105, 112, 116, 62, 120, 40, 41, 59, 60, 47, 115, 99, 114, 105, 112, 116, 62>>

\* bytes of ">AF_initDataCallback({key: 'ds:1', data: []});</script>>AF_initDataCallback({key: 'ds:1', data: [0,0,0,[0,0,0,0,[[["Hello","World"]]]]]});</script>"
BodyEarlierCallbackNested ==
    <<62, 65, 70, 95, 105, 110, 105, 116, 68, 97, 116, 97, 67, 97, 108, 108, 98, 97, 99, 107, 40, 123, 107, 101, 121, 58, 32, 39, 100, 115, 58, 49, 39, 44, 32, 100, 97, 116, 97, 58, 32, 91, 93, 125, 41, 59, 60, 47, 115, 99, 114, 105, 112, 116, 62, 62, 65, 70, 95, 105, 110, 105, 116, 68, 97, 116, 97, 67, 97, 108, 108, 98, 97, 99, 107, 40, 123, 107, 101, 121, 58, 32, 39, 100, 115, 58, 49, 39, 44, 32, 100, 97, 116, 97, 58, 32, 91, 48, 44, 48, 44, 48, 44, 91, 48, 44, 48, 44, 48, 44, 48, 44, 91, 91, 91, 34, 72, 101, 108, 108, 111, 34, 44, 34, 87, 111, 114, 108, 100, 34, 93, 93, 93, 93, 93, 125, 41, 59, 60, 47, 115, 99, 114, 105, 112, 116, 62>>

\* bytes of "<html><script>x();</script></html>"
BodyNoCallback ==
    <<60, 104, 116, 109, 108, 62, 60, 115, 99, 114, 105, 112, 116, 62, 120, 40, 41, 59, 60, 47, 115, 99, 114, 105, 112, 116, 62, 60, 47, 104, 116, 109, 108, 62>>

\* bytes of ">AF_initDataCallback({key: 'ds:1',\n data: [0,0,0,[0,0,0,0,[[["a"]]]]]});</script>"
BodyLineBreak ==
    <<62, 65, 70, 95, 105, 110, 105, 116, 68, 97, 116, 97, 67, 97, 108, 108, 98, 97, 99, 107, 40, 123, 107, 101, 121, 58, 32, 39, 100, 115, 58, 49, 39, 44, 10, 32, 100, 97, 116, 97, 58, 32, 91, 48, 44, 48, 44, 48, 44, 91, 48, 44, 48, 44, 48, 44, 48, 44, 91, 91, 91, 34, 97, 34, 93, 93, 93, 93, 93, 125, 41, 59, 60, 47, 115, 99, 114, 105, 112, 116, 62>>

\* bytes of ">AF_initDataCallback({key: 'ds:1', data: [0,0,0,[});</script>"
BodyBadSyntax ==
    <<62, 65, 70, 95, 105, 110, 105, 116, 68, 97, 116, 97, 67, 97, 108, 108, 98, 97, 99, 107, 40, 123, 107, 101, 121, 58, 32, 39, 100, 115, 58, 49, 39, 44, 32, 100, 97, 116, 97, 58, 32, 91, 48, 44, 48, 44, 48, 44, 91, 125, 41, 59, 60, 47, 115, 99, 114, 105, 112, 116, 62>>

\* bytes of ">AF_initDataCallback({key: 'ds:1', data: [0,0,0,[0,0,0,0,[[]]]]});</script>"
BodyEmptyList ==
    <<62, 65, 70, 95, 105, 110, 105, 116, 68, 97, 116, 97, 67, 97, 108, 108, 98, 97, 99, 107, 40, 123, 107, 101, 121, 58, 32, 39, 100, 115, 58, 49, 39, 44, 32, 100, 97, 116, 97, 58, 32, 91, 48, 44, 48, 44, 48, 44, 91, 48, 44, 48, 44, 48, 44, 48, 44, 91, 91, 93, 93, 93, 93, 125, 41, 59, 60, 47, 115, 99, 114, 105, 112, 116, 62>>

\* bytes of ">AF_initDataCallback({key: 'ds:1', data: [0,0,0,[0,0,0,0,[["x", ["y"]]]]]});</script>"
BodyFirstString ==
    <<62, 65, 70, 95, 105, 110, 105, 116, 68, 97, 116, 97, 67, 97, 108, 108, 98, 97, 99, 107, 40, 123, 107, 101, 121, 58, 32, 39, 100, 115, 58, 49, 39, 44, 32, 100, 97, 116, 97, 58, 32, 91, 48, 44, 48, 44, 48, 44, 91, 48, 44, 48, 44, 48, 44, 48, 44, 91, 91, 34, 120, 34, 44, 32, 91, 34, 121, 34, 93, 93, 93, 93, 93, 125, 41, 59, 60, 47, 115, 99, 114, 105, 112, 116, 62>>

\* bytes of ">AF_initDataCallback({key: 'ds:1', data: [0,0,0,[0,0,0,0,[[42]]]]});</script>"
BodyFirstNumber ==
    <<62, 65, 70, 95, 105, 110, 105, 116, 68, 97, 116, 97, 67, 97, 108, 108, 98, 97, 99, 107, 40, 123, 107, 101, 121, 58, 32, 39, 100, 115, 58, 49, 39, 44, 32, 100, 97, 116, 97, 58, 32, 91, 48, 44, 48, 44, 48, 44, 91, 48, 44, 48, 44, 48, 44, 48, 44, 91, 91, 52, 50, 93, 93, 93, 93, 125, 41, 59, 60, 47, 115, 99, 114, 105, 112, 116, 62>>

\* bytes of ">AF_initDataCallback({key: 'ds:1', data: [0,0,0,[0,0,0,0,[[{a: null}]]]]});</script>"
BodyFirstObject ==
    <<62, 65, 70, 95, 105, 110, 105, 116, 68, 97, 116, 97, 67, 97, 108, 108, 98, 97, 99, 107, 40, 123, 107, 101, 121, 58, 32, 39, 100, 115, 58, 49, 39, 44, 32, 100, 97, 116, 97, 58, 32, 91, 48, 44, 48, 44, 48, 44, 91, 48, 44, 48, 44, 48, 44, 48, 44, 91, 91, 123, 97, 58, 32, 110, 117, 108, 108, 125, 93, 93, 93, 93, 125, 41, 59, 60, 47, 115, 99, 114, 105, 112, 116, 62>>

\* bytes of ">AF_initDataCallback({key: 'ds:1', data: [0,0,0,[0,0,0,0,[[["hello", 42, "world"]]]]]});</script>"
BodySkipNumber ==
    <<62, 65, 70, 95, 105, 110, 105, 116, 68, 97, 116, 97, 67, 97, 108, 108, 98, 97, 99, 107, 40, 123, 107, 101, 121, 58, 32, 39, 100, 115, 58, 49, 39, 44, 32, 100, 97, 116, 97, 58, 32, 91, 48, 44, 48, 44, 48, 44, 91, 48, 44, 48, 44, 48, 44, 48, 44, 91, 91, 91, 34, 104, 101, 108, 108, 111, 34, 44, 32, 52, 50, 44, 32, 34, 119, 111, 114, 108, 100, 34, 93, 93, 93, 93, 93, 125, 41, 59, 60, 47, 115, 99, 114, 105, 112, 116, 62>>

\* bytes of ">AF_initDataCallback({key: 'ds:1', data: [0,0,0,[0,0,0,0,[[["", "a b ", true, " \t"], ["n"]]]]]});</script>"
BodyTrailingSpace ==
    <<62, 65, 70, 95, 105, 110, 105, 116, 68, 97, 116, 97, 67, 97, 108, 108, 98, 97, 99, 107, 40, 123, 107, 101, 121, 58, 32, 39, 100, 115, 58, 49, 39, 44, 32, 100, 97, 116, 97, 58, 32, 91, 48, 44, 48, 44, 48, 44, 91, 48, 44, 48, 44, 48, 44, 48, 44, 91, 91, 91, 34, 34, 44, 32, 34, 97, 32, 98, 32, 34, 44, 32, 116, 114, 117, 101, 44, 32, 34, 32, 92, 116, 34, 93, 44, 32, 91, 34, 110, 34, 93, 93, 93, 93, 93, 125, 41, 59, 60, 47, 115, 99, 114, 105, 112, 116, 62>>

\* bytes of ">AF_initDataCallback({key: 'ds:1', data: [0,0,0,[0,0,0,0,[[[1, ["z"], null]]]]]});</script>"
BodyNoStrings ==
    <<62, 65, 70, 95, 105, 110, 105, 116, 68, 97, 116, 97, 67, 97, 108, 108, 98, 97, 99, 107, 40, 123, 107, 101, 121, 58, 32, 39, 100, 115, 58, 49, 39, 44, 32, 100, 97, 116, 97, 58, 32, 91, 48, 44, 48, 44, 48, 44, 91, 48, 44, 48, 44, 48, 44, 48, 44, 91, 91, 91, 49, 44, 32, 91, 34, 122, 34, 93, 44, 32, 110, 117, 108, 108, 93, 93, 93, 93, 93, 125, 41, 59, 60, 47, 115, 99, 114, 105, 112, 116, 62>>

\* bytes of ">AF_initDataCallback({key: 'ds:1', data: [0,0,0,[0,0,0,0,[[[]]]]]});</script>"
BodyNoFragments ==
    <<62, 65, 70, 95, 105, 110, 105, 116, 68, 97, 116, 97, 67, 97, 108, 108, 98, 97, 99, 107, 40, 123, 107, 101, 121, 58, 32, 39, 100, 115, 58, 49, 39, 44, 32, 100, 97, 116, 97, 58, 32, 91, 48, 44, 48, 44, 48, 44, 91, 48, 44, 48, 44, 48, 44, 48, 44, 91, 91, 91, 93, 93, 93, 93, 93, 125, 41, 59, 60, 47, 115, 99, 114, 105, 112, 116, 62>>

\* bytes of ">AF_initDataCallback({key: 'ds:1', data: {"3": {"4": {"0": [["x"]]}}}});</script>"
BodyObjectLevels ==
    <<62, 65, 70, 95, 105, 110, 105, 116, 68, 97, 116, 97, 67, 97, 108, 108, 98, 97, 99, 107, 40, 123, 107, 101, 121, 58, 32, 39, 100, 115, 58, 49, 39, 44, 32, 100, 97, 116, 97, 58, 32, 123, 34, 51, 34, 58, 32, 123, 34, 52, 34, 58, 32, 123, 34, 48, 34, 58, 32, 91, 91, 34, 120, 34, 93, 93, 125, 125, 125, 125, 41, 59, 60, 47, 115, 99, 114, 105, 112, 116, 62>>

\* bytes of ">AF_initDataCallback({key: 'ds:1', data: [0,0,0,{"4": [[["y"]]]}]});</script>"
BodyObjectAt3 ==
    <<62, 65, 70, 95, 105, 110, 105, 116, 68, 97, 116, 97, 67, 97, 108, 108, 98, 97, 99, 107, 40, 123, 107, 101, 121, 58, 32, 39, 100, 115, 58, 49, 39, 44, 32, 100, 97, 116, 97, 58, 32, 91, 48, 44, 48, 44, 48, 44, 123, 34, 52, 34, 58, 32, 91, 91, 91, 34, 121, 34, 93, 93, 93, 125, 93, 125, 41, 59, 60, 47, 115, 99, 114, 105, 112, 116, 62>>

\* bytes of ">AF_initDataCallback({key: 'ds:1', hash: '2'});</script>"
BodyNoData ==
    <<62, 65, 70, 95, 105, 110, 105, 116, 68, 97, 116, 97, 67, 97, 108, 108, 98, 97, 99, 107, 40, 123, 107, 101, 121, 58, 32, 39, 100, 115, 58, 49, 39, 44, 32, 104, 97, 115, 104, 58, 32, 39, 50, 39, 125, 41, 59, 60, 47, 115, 99, 114, 105, 112, 116, 62>>

\* bytes of ">AF_initDataCallback({key: 'ds:1', data: [0,0,0]});</script>"
BodyShortData ==
    <<62, 65, 70, 95, 105, 110, 105, 116, 68, 97, 116, 97, 67, 97, 108, 108, 98, 97, 99, 107, 40, 123, 107, 101, 121, 58, 32, 39, 100, 115, 58, 49, 39, 44, 32, 100, 97, 116, 97, 58, 32, 91, 48, 44, 48, 44, 48, 93, 125, 41, 59, 60, 47, 115, 99, 114, 105, 112, 116, 62>>

\* bytes of ">AF_initDataCallback({key: 'ds:1', data: [0,0,0,7]});</script>"
BodyScalarAt3 ==
    <<62, 65, 70, 95, 105, 110, 105, 116, 68, 97, 116, 97, 67, 97, 108, 108, 98, 97, 99, 107, 40, 123, 107, 101, 121, 58, 32, 39, 100, 115, 58, 49, 39, 44, 32, 100, 97, 116, 97, 58, 32, 91, 48, 44, 48, 44, 48, 44, 55, 93, 125, 41, 59, 60, 47, 115, 99, 114, 105, 112, 116, 62>>

\* bytes of ">AF_initDataCallback({key: 'ds:1', data: [0,0,0,[0,0,0,0,[]]]});</script>"
BodyEmptyAt4 ==
    <<62, 65, 70, 95, 105, 110, 105, 116, 68, 97, 116, 97, 67, 97, 108, 108, 98, 97, 99, 107, 40, 123, 107, 101, 121, 58, 32, 39, 100, 115, 58, 49, 39, 44, 32, 100, 97, 116, 97, 58, 32, 91, 48, 44, 48, 44, 48, 44, 91, 48, 44, 48, 44, 48, 44, 48, 44, 91, 93, 93, 93, 125, 41, 59, 60, 47, 115, 99, 114, 105, 112, 116, 62>>

\* bytes of ">AF_initDataCallback({key: 'ds:1', data: [0,0,0,[0,0,0,0,["s"]]]});</script>"
BodyStringAtLeaf ==
    <<62, 65, 70, 95, 105, 110, 105, 116, 68, 97, 116, 97, 67, 97, 108, 108, 98, 97, 99, 107, 40, 123, 107, 101, 121, 58, 32, 39, 100, 115, 58, 49, 39, 44, 32, 100, 97, 116, 97, 58, 32, 91, 48, 44, 48, 44, 48, 44, 91, 48, 44, 48, 44, 48, 44, 48, 44, 91, 34, 115, 34, 93, 93, 93, 125, 41, 59, 60, 47, 115, 99, 114, 105, 112, 116, 62>>

\* bytes of ">AF_initDataCallback({key: 'ds:1', data: [0,0,0,[0,0,0,0,[{"0": ["s"]}]]]});</script>"
BodyObjectAtLeaf ==
    <<62, 65, 70, 95, 105, 110, 105, 116, 68, 97, 116, 97, 67, 97, 108, 108, 98, 97, 99, 107, 40, 123, 107, 101, 121, 58, 32, 39, 100, 115, 58, 49, 39, 44, 32, 100, 97, 116, 97, 58, 32, 91, 48, 44, 48, 44, 48, 44, 91, 48, 44, 48, 44, 48, 44, 48, 44, 91, 123, 34, 48, 34, 58, 32, 91, 34, 115, 34, 93, 125, 93, 93, 93, 125, 41, 59, 60, 47, 115, 99, 114, 105, 112, 116, 62>>

Bodies ==
    {BodyHello,
     BodyHelloNested,
     BodyHelloNestedThenScript,
     BodyEarlierCallbackNested,
     BodyNoCallback,
     BodyLineBreak,
     BodyBadSyntax,
     BodyEmptyList,
     BodyFirstString,
     BodyFirstNumber,
     BodyFirstObject,
     BodySkipNumber,
     BodyTrailingSpace,
     BodyNoStrings,
     BodyNoFragments,
     BodyObjectLevels,
     BodyObjectAt3,
     BodyNoData,
     BodyShortData,
     BodyScalarAt3,
     BodyEmptyAt4,
     BodyStringAtLeaf,
     BodyObjectAtLeaf}
(***************************************************************************)
(* The environment's choices.                                              *)
(***************************************************************************)
MaxPngLen ==
    2

MaxTimestamp ==
    1024

\* argv after the program name
Argvs ==
    {<<>>, <<"photo.png">>, <<"clipboard">>, <<"clipboard", "photo.png">>}

\* width and height of the images a file or the clipboard can hold
Dimensions ==
    {[w |-> 1, h |-> 1],
     [w |-> 2000, h |-> 1500],
     [w |-> 1733, h |-> 1732],
     [w |-> 4000, h |-> 3000],
     [w |-> 3000001, h |-> 1],
     [w |-> 1, h |-> 3000001],
     [w |-> 65536, h |-> 65536],
     [w |-> 70000, h |-> 70000]}

\* the bytes the PNG encoder can produce (a CR and a dash among them)
PngOutputs ==
    UNION {[1..n -> {13, 45}] : n \in 1..MaxPngLen}

Timestamps ==
    {0, MaxTimestamp}

Statuses ==
    {200, 204, 302, 404, 500}

NoError ==
    [kind |-> "none", code |-> 0]

Error(kind) ==
    [kind |-> kind, code |-> 0]

NoSink ==
    [invoked |-> FALSE, written |-> FALSE, dest |-> "none", arg |-> <<>>, out |-> <<>>]

Init ==
    /\ pc = "start"
    /\ command = [mode |-> "none", path |-> FALSE]
    /\ clipboardOpen = FALSE
    /\ srcImg = None
    /\ img = None
    /\ png = <<>>
    /\ ts = 0
    /\ filename = <<>>
    /\ body = <<>>
    /\ contentType = <<>>
    /\ requests = 0
    /\ status = 0
    /\ text = None
    /\ capture = None
    /\ value = None
    /\ data = None
    /\ result = None
    /\ err = NoError
    /\ sink = NoSink
    /\ stages = <<>>

\* `?` and bail!: main returns the error and nothing else changes
Propagate(e) ==
    /\ err' = e
    /\ pc' = "failed"

(***************************************************************************)
(* main and run_ocr, one action per call.                                  *)
(***************************************************************************)
ParseArgs ==
    /\ pc = "start"
    /\ \E argv \in Argvs :
         IF argv = <<>>
         THEN /\ Propagate(Error("Usage"))
              /\ UNCHANGED command
         ELSE IF argv[1] = "clipboard"
         THEN /\ command' = [mode |-> "clipboard", path |-> Len(argv) > 1]
              /\ pc' = "open_clipboard"
              /\ UNCHANGED err
         ELSE /\ command' = [mode |-> "normal", path |-> TRUE]
              /\ pc' = "load"
              /\ UNCHANGED err
    /\ UNCHANGED <<clipboardOpen, srcImg, img, png, ts, filename, body, contentType,
                   requests, status, text, capture, value, data, result, sink, stages>>

OpenClipboard ==
    /\ pc = "open_clipboard"
    /\ \/ /\ clipboardOpen' = TRUE
          /\ pc' = IF command.path THEN "load" ELSE "load_clipboard"
          /\ UNCHANGED err
       \/ /\ Propagate(Error("ClipboardRead"))
          /\ UNCHANGED clipboardOpen
    /\ UNCHANGED <<command, srcImg, img, png, ts, filename, body, contentType,
                   requests, status, text, capture, value, data, result, sink, stages>>

LoadImage ==
    /\ pc = "load"
    /\ stages' = Append(stages, "acquire")
    /\ \/ \E d \in Dimensions :
            /\ srcImg' = Some(d)
            /\ pc' = "resize"
            /\ UNCHANGED err
       \/ /\ Propagate(Error("ImageDecode"))
          /\ UNCHANGED srcImg
    /\ UNCHANGED <<command, clipboardOpen, img, png, ts, filename, body, contentType,
                   requests, status, text, capture, value, data, result, sink>>

LoadImageFromClipboard ==
    /\ pc = "load_clipboard"
    /\ stages' = Append(stages, "acquire")
    /\ \/ \E d \in Dimensions :
            /\ srcImg' = Some(d)
            /\ pc' = "resize"
            /\ UNCHANGED err
       \/ /\ Propagate(Error("ClipboardEmpty"))
          /\ UNCHANGED srcImg
       \/ /\ Propagate(Error("BufferSize"))
          /\ UNCHANGED srcImg
    /\ UNCHANGED <<command, clipboardOpen, img, png, ts, filename, body, contentType,
                   requests, status, text, capture, value, data, result, sink>>

\* width * height that overflows u32 panics in a build with overflow checks
\* and wraps in a build without them
MaybeResize ==
    /\ pc = "resize"
    /\ stages' = Append(stages, "normalize")
    /\ \/ /\ img' = Some(maybe_resize_image(srcImg.v))
          /\ pc' = "encode"
       \/ /\ Overflows(srcImg.v.w, srcImg.v.h)
          /\ pc' = "panicked"
          /\ UNCHANGED img
    /\ UNCHANGED <<command, clipboardOpen, srcImg, png, ts, filename, body, contentType,
                   requests, status, text, capture, value, data, result, err, sink>>

\* img.write_to(.., Png): the encoder rejects an image without pixels
EncodePng ==
    /\ pc = "encode"
    /\ \/ /\ img.v.w > 0 /\ img.v.h > 0
          /\ \E bytes \in PngOutputs : png' = bytes
          /\ pc' = "build"
          /\ UNCHANGED err
       \/ /\ Propagate(Error("Encode"))
          /\ UNCHANGED png
    /\ UNCHANGED <<command, clipboardOpen, srcImg, img, ts, filename, body, contentType,
                   requests, status, text, capture, value, data, result, sink, stages>>

BuildRequest ==
    /\ pc = "build"
    /\ stages' = Append(stages, "build")
    /\ \E t \in Timestamps :
         /\ ts' = t
         /\ filename' = FormatFilename(t)
         /\ body' = create_multipart_form(FormatFilename(t), png)
    /\ contentType' = FormatContentType
    /\ pc' = "send"
    /\ UNCHANGED <<command, clipboardOpen, srcImg, img, png, requests, status, text,
                   capture, value, data, result, err, sink>>

\* ureq's send_bytes: a transport failure, a response, or (for a status of
\* 400 and above) the response wrapped in an error that carries its status
SendBytes ==
    /\ pc = "send"
    /\ stages' = Append(stages, "post")
    /\ requests' = requests + 1
    /\ \/ /\ Propagate(Error("Transport"))
          /\ UNCHANGED status
       \/ \E s \in Statuses :
            /\ status' = s
            /\ pc' = "status"
            /\ UNCHANGED err
       \/ \E s \in Statuses :
            /\ s >= 400
            /\ status' = s
            /\ Propagate([kind |-> "Status", code |-> s])
    /\ UNCHANGED <<command, clipboardOpen, srcImg, img, png, ts, filename, body,
                   contentType, text, capture, value, data, result, sink>>

CheckStatusErrorsOnly ==
    /\ pc = "status"
    /\ IF status >= 400
       THEN Propagate([kind |-> "UpstreamStatus", code |-> status])
       ELSE pc' = "read" /\ UNCHANGED err
    /\ UNCHANGED <<command, clipboardOpen, srcImg, img, png, ts, filename, body, contentType,
                   requests, status, text, capture, value, data, result, sink, stages>>

CheckStatus ==
    /\ pc = "status"
    /\ IF status # 200
       THEN Propagate([kind |-> "UpstreamStatus", code |-> status])
       ELSE pc' = "read" /\ UNCHANGED err
    /\ UNCHANGED <<command, clipboardOpen, srcImg, img, png, ts, filename, body, contentType,
                   requests, status, text, capture, value, data, result, sink, stages>>

\* resp.into_string(): the body is received here
IntoString ==
    /\ pc = "read"
    /\ \/ \E b \in Bodies :
            /\ text' = Some(b)
            /\ pc' = "match"
            /\ UNCHANGED err
       \/ /\ Propagate(Error("ResponseDecode"))
          /\ UNCHANGED text
    /\ UNCHANGED <<command, clipboardOpen, srcImg, img, png, ts, filename, body, contentType,
                   requests, status, capture, value, data, result, sink, stages>>

FindCapture ==
    /\ pc = "match"
    /\ stages' = Append(stages, "extract")
    /\ capture' = captures(text.v)
    /\ IF capture'.some
       THEN pc' = "parse" /\ UNCHANGED err
       ELSE Propagate(Error("PayloadNotFound"))
    /\ UNCHANGED <<command, clipboardOpen, srcImg, img, png, ts, filename, body, contentType,
                   requests, status, text, value, data, result, sink>>

ParsePayload ==
    /\ pc = "parse"
    /\ value' = from_str(capture.v)
    /\ IF value'.some
       THEN pc' = "navigate" /\ UNCHANGED err
       ELSE Propagate(Error("PayloadParse"))
    /\ UNCHANGED <<command, clipboardOpen, srcImg, img, png, ts, filename, body, contentType,
                   requests, status, text, capture, data, result, sink, stages>>

Navigate ==
    /\ pc = "navigate"
    /\ data' = find_data(value.v)
    /\ IF data'.some
       THEN pc' = "join" /\ UNCHANGED err
       ELSE Propagate(Error("PayloadShape"))
    /\ UNCHANGED <<command, clipboardOpen, srcImg, img, png, ts, filename, body, contentType,
                   requests, status, text, capture, value, result, sink, stages>>

ExtractText ==
    /\ pc = "join"
    /\ result' = extract_text(data.v)
    /\ IF result'.some
       THEN pc' = "output" /\ UNCHANGED err
       ELSE Propagate(Error("PayloadShape"))
    /\ UNCHANGED <<command, clipboardOpen, srcImg, img, png, ts, filename, body, contentType,
                   requests, status, text, capture, value, data, sink, stages>>

\* println!("{result}\n"), which panics when stdout cannot be written
PrintResult ==
    /\ pc = "output"
    /\ command.mode = "normal"
    /\ stages' = Append(stages, "sink")
    /\ \/ /\ sink' = [invoked |-> TRUE, written |-> TRUE, dest |-> "stdout",
                      arg |-> result.v, out |-> result.v \o <<10, 10>>]
          /\ pc' = "done"
       \/ /\ sink' = [invoked |-> TRUE, written |-> FALSE, dest |-> "stdout",
                      arg |-> result.v, out |-> <<>>]
          /\ pc' = "panicked"
    /\ UNCHANGED <<command, clipboardOpen, srcImg, img, png, ts, filename, body, contentType,
                   requests, status, text, capture, value, data, result, err>>

SetClipboardTextUnchecked ==
    /\ pc = "output"
    /\ command.mode = "clipboard"
    /\ stages' = Append(stages, "sink")
    /\ \/ /\ sink' = [invoked |-> TRUE, written |-> TRUE, dest |-> "clipboard",
                      arg |-> result.v, out |-> result.v]
          /\ pc' = "done"
          /\ UNCHANGED err
       \/ /\ sink' = [invoked |-> TRUE, written |-> TRUE, dest |-> "clipboard",
                      arg |-> result.v, out |-> <<>>]
          /\ Propagate(Error("ClipboardWrite"))
    /\ UNCHANGED <<command, clipboardOpen, srcImg, img, png, ts, filename, body, contentType,
                   requests, status, text, capture, value, data, result>>

SetClipboardText ==
    /\ pc = "output"
    /\ command.mode = "clipboard"
    /\ stages' = Append(stages, "sink")
    /\ \/ /\ sink' = [invoked |-> TRUE, written |-> TRUE, dest |-> "clipboard",
                      arg |-> result.v, out |-> result.v]
          /\ pc' = "done"
          /\ UNCHANGED err
       \/ /\ sink' = [invoked |-> TRUE, written |-> FALSE, dest |-> "clipboard",
                      arg |-> result.v, out |-> <<>>]
          /\ Propagate(Error("ClipboardWrite"))
    /\ UNCHANGED <<command, clipboardOpen, srcImg, img, png, ts, filename, body, contentType,
                   requests, status, text, capture, value, data, result>>

Next ==
    \/ ParseArgs
    \/ OpenClipboard
    \/ LoadImage
    \/ LoadImageFromClipboard
    \/ MaybeResize
    \/ EncodePng
    \/ BuildRequest
    \/ SendBytes
    \/ CheckStatus
    \/ IntoString
    \/ FindCapture
    \/ ParsePayload
    \/ Navigate
    \/ ExtractText
    \/ PrintResult
    \/ SetClipboardText

Spec ==
    Init /\ [][Next]_vars

(***************************************************************************)
(* Byte strings the properties below speak of.                             *)
(***************************************************************************)
\* bytes of ">AF_initDataCallback({key: 'ds:1', data: [0,0,0,[0,0,0,0,[["Hello","World"]]]]});</script>"
SNIPPET ==
    <<62, 65, 70, 95, 105, 110, 105, 116, 68, 97, 116, 97, 67, 97, 108, 108, 98, 97, 99, 107, 40, 123, 107, 101, 121, 58, 32, 39, 100, 115, 58, 49, 39, 44, 32, 100, 97, 116, 97, 58, 32, 91, 48, 44, 48, 44, 48, 44, 91, 48, 44, 48, 44, 48, 44, 48, 44, 91, 91, 34, 72, 101, 108, 108, 111, 34, 44, 34, 87, 111, 114, 108, 100, 34, 93, 93, 93, 93, 125, 41, 59, 60, 47, 115, 99, 114, 105, 112, 116, 62>>

\* bytes of ">AF_initDataCallback({key: 'ds:1', data: [0,0,0,[0,0,0,0,[[["Hello","World"]]]]]});</script>"
SNIPPET_NESTED ==
    <<62, 65, 70, 95, 105, 110, 105, 116, 68, 97, 116, 97, 67, 97, 108, 108, 98, 97, 99, 107, 40, 123, 107, 101, 121, 58, 32, 39, 100, 115, 58, 49, 39, 44, 32, 100, 97, 116, 97, 58, 32, 91, 48, 44, 48, 44, 48, 44, 91, 48, 44, 48, 44, 48, 44, 48, 44, 91, 91, 91, 34, 72, 101, 108, 108, 111, 34, 44, 34, 87, 111, 114, 108, 100, 34, 93, 93, 93, 93, 93, 125, 41, 59, 60, 47, 115, 99, 114, 105, 112, 116, 62>>

\* bytes of "Content-Disposition: form-data; name="encoded_image"; filename=""
LAYOUT_DISPOSITION ==
    <<67, 111, 110, 116, 101, 110, 116, 45, 68, 105, 115, 112, 111, 115, 105, 116, 105, 111, 110, 58, 32, 102, 111, 114, 109, 45, 100, 97, 116, 97, 59, 32, 110, 97, 109, 101, 61, 34, 101, 110, 99, 111, 100, 101, 100, 95, 105, 109, 97, 103, 101, 34, 59, 32, 102, 105, 108, 101, 110, 97, 109, 101, 61, 34>>

\* bytes of ""\r\n"
LAYOUT_QUOTE_CRLF ==
    <<34, 13, 10>>

\* bytes of "Hello\nWorld"
TEXT_HELLO_WORLD ==
    <<72, 101, 108, 108, 111, 10, 87, 111, 114, 108, 100>>

\* bytes of "hello\nworld"
TEXT_HELLO_WORLD_LOWER ==
    <<104, 101, 108, 108, 111, 10, 119, 111, 114, 108, 100>>

(***************************************************************************)
(* Properties.                                                             *)
(***************************************************************************)
PIPELINE ==
    <<"acquire", "normalize", "build", "post", "extract", "sink">>

IsPrefix(a, b) ==
    Len(a) <= Len(b) /\ SubSeq(b, 1, Len(a)) = a

Contains(s, lit) ==
    \E i \in 1..Len(s) : At(s, i, lit)

\* lit occurs in s and the opening of the pattern occurs nowhere before it
FirstCallbackIs(s, lit) ==
    \E i \in 1..Len(s) :
        /\ At(s, i, lit)
        /\ \A j \in 1..(i - 1) : ~At(s, j, RE_OPEN)

\* run_ocr is between reading the body and returning
Extracting ==
    pc \in {"match", "parse", "navigate", "join"}

ExactPixelsExceedCeiling(image) ==
    BigCmp(Product(image.w, image.h), Limbs(PIXEL_CEILING)) > 0

C1_Stages ==
    /\ IsPrefix(stages, PIPELINE)
    /\ requests <= 1
    /\ (requests = 1) = (Len(stages) >= 4)
    /\ (err # NoError) = (pc = "failed")
    /\ sink.invoked =>
          /\ stages = PIPELINE
          /\ srcImg.some /\ img.some /\ png # <<>> /\ body # <<>>
          /\ status = 200 /\ text.some /\ capture.some /\ value.some /\ data.some
          /\ result.some /\ sink.arg = result.v
          /\ sink.dest = (IF command.mode = "normal" THEN "stdout" ELSE "clipboard")
    /\ sink.written => err = NoError /\ pc = "done"

C1_AfterFailure ==
    pc \in {"failed", "panicked"} => UNCHANGED <<stages, requests, sink, pc, err>>

C2_NonOkStatusFails ==
    status \notin {0, 200} =>
        /\ ~text.some /\ ~capture.some /\ ~value.some /\ ~data.some
        /\ ~result.some /\ ~sink.invoked
        /\ \/ pc = "status"
           \/ /\ pc = "failed"
              /\ err.kind \in {"UpstreamStatus", "Status"}
              /\ err.code = status

C2_Witness ==
    /\ status = 500
    /\ pc = "failed"
    /\ err = [kind |-> "UpstreamStatus", code |-> 500]
    /\ ~text.some

C4_FirstNotArrayFails ==
    (data.some /\ Len(data.v) > 0 /\ data.v[1].t # "arr" /\ ~Extracting) =>
        (~result.some /\ pc = "failed" /\ err.kind = "PayloadShape")

\* the member named key of an object, the last one if there are several
Member(obj, key) ==
    LET hits == {i \in 1..Len(obj.m) : obj.m[i].k = key}
    IN  IF hits = {} THEN None ELSE Some(obj.m[Max(hits)].v)

\* v is an array with an element at the zero-based index i
HasIndex(v, i) ==
    v.t = "arr" /\ Len(v.a) > i

\* data, data[3], data[3][4] and data[3][4][0] all exist and are arrays
ArrayPath(doc) ==
    /\ doc.t = "obj"
    /\ Member(doc, TOKEN_DATA).some
    /\ LET d == Member(doc, TOKEN_DATA).v
       IN  /\ HasIndex(d, 3)
           /\ HasIndex(d.a[4], 4)
           /\ HasIndex(d.a[4].a[5], 0)
           /\ d.a[4].a[5].a[1].t = "arr"

\* C5: the path data[3][4][0] is walked by array index only: if any level is
\* missing or is not an array (an object with a key "3", "4" or "0" included)
\* extraction fails with a payload-shape error and returns no text.
C5_ArrayIndexingOnly ==
    (value.some /\ ~ArrayPath(value.v) /\ ~Extracting) =>
        (~result.some /\ pc = "failed" /\ err.kind = "PayloadShape")

IsString(e) ==
    e.t = "str"

RECURSIVE Lines(_)
Lines(strings) ==
    IF strings = <<>> THEN <<>>
    ELSE (Head(strings).s \o <<10>>) \o Lines(Tail(strings))

\* r is joined without its trailing whitespace
TrimmedOf(r, joined) ==
    /\ IsPrefix(r, joined)
    /\ \A k \in (Len(r) + 1)..Len(joined) : joined[k] \in {9, 10, 11, 12, 13, 32}
    /\ r = <<>> \/ r[Len(r)] \notin {9, 10, 11, 12, 13, 32}

\* C6: the text extracted from a fragment list is its string entries, in
\* order, each followed by a line feed, without the trailing whitespace of
\* the whole; entries that are not strings are skipped without error.
C6_JoinFragments ==
    (data.some /\ Len(data.v) > 0 /\ data.v[1].t = "arr" /\ ~Extracting) =>
        /\ result.some
        /\ TrimmedOf(result.v, Lines(SelectSeq(data.v[1].a, IsString)))
        /\ text.v = BodySkipNumber => result.v = TEXT_HELLO_WORLD_LOWER

C6_Witness ==
    /\ text.some
    /\ text.v = BodySkipNumber
    /\ result.some
    /\ result.v = TEXT_HELLO_WORLD_LOWER
    /\ sink.written

\* C7: an empty array at data[3][4][0] is not an error: run_ocr returns the
\* empty text and the sink is invoked with it.
C7_EmptyListIsEmptyText ==
    (data.some /\ Len(data.v) = 0 /\ ~Extracting) =>
        /\ result.some
        /\ result.v = <<>>
        /\ err.kind \in {"none", "ClipboardWrite"}
        /\ \/ pc = "output"
           \/ sink.invoked /\ sink.arg = <<>>

C7_Witness ==
    /\ data.some
    /\ Len(data.v) = 0
    /\ result.some
    /\ sink.written
    /\ sink.arg = <<>>
    /\ pc = "done"

\* C8: an image of more than 3,000,000 pixels (the exact product, also when
\* it does not fit in 32 bits) comes back from maybe_resize_image with at
\* most 3,000,000 pixels.
C8_ResizedUnderCeiling ==
    (img.some /\ ExactPixelsExceedCeiling(srcImg.v)) =>
        ~ExactPixelsExceedCeiling(img.v)

\* C9: the body is --BOUNDARY CRLF, the Content-Type line, the
\* Content-Disposition line with the filename, an empty line, the image bytes
\* unchanged and CRLF --BOUNDARY-- CRLF, a function of the filename and the
\* bytes alone, where BOUNDARY is what the Content-Type header declares.
C9_MultipartLayout ==
    Len(stages) >= 3 =>
        LET declared == SubSeq(contentType, Len(LIT_HEADER_PREFIX) + 1, Len(contentType))
        IN  /\ At(contentType, 1, LIT_HEADER_PREFIX)
            /\ declared # <<>>
            /\ body = <<45, 45>> \o declared \o <<13, 10>>
                      \o LIT_CONTENT_TYPE
                      \o LAYOUT_DISPOSITION \o filename \o LAYOUT_QUOTE_CRLF
                      \o <<13, 10>>
                      \o png
                      \o <<13, 10, 45, 45>> \o declared \o <<45, 45, 13, 10>>

C9_Witness ==
    /\ pc = "send"
    /\ filename = <<49, 48, 50, 52>> \o LIT_PNG_SUFFIX
    /\ png = <<13, 45>>
    /\ At(body, Len(body) - 31, <<13, 45, 13, 10, 45, 45>>)

\* C10: for an image of at least 1 x 1 and more than 3,000,000 pixels, the
\* width and height maybe_resize_image computes are both at least 1.
C10_ResizedNotEmpty ==
    (img.some /\ srcImg.v.w >= 1 /\ srcImg.v.h >= 1 /\ ExactPixelsExceedCeiling(srcImg.v)) =>
        (img.v.w >= 1 /\ img.v.h >= 1)

====
